---- MODULE Spec2Model ----
(***************************************************************************)
(* bchannel: a std::sync::mpsc channel whose Sender can terminate the      *)
(* stream with an error (src/src/lib.rs).                                  *)
(*                                                                         *)
(* The transport (mpsc) is modelled by its contents `queue`, the liveness  *)
(* of its consumer end `rxAlive` and the liveness of its producer handles  *)
(* (sx[h].state).  Every method of Sender and Receiver is one action; the  *)
(* blocking receive and send_all, which other threads can interleave with, *)
(* are split at the points where they wait or loop.  Sender::into_inner    *)
(* and Receiver::into_inner hand the mpsc ends out of the library and are  *)
(* not modelled.                                                           *)
(***************************************************************************)
EXTENDS Integers, Sequences, FiniteSets, TLC

\* ---------------------------------------------------------------- bounds
MaxHandles == 2      \* Sender handles that can ever exist (original + clones)
MaxSend    == 2      \* envelopes ever enqueued on the transport
MaxRecv    == 3      \* receive calls (recv / recv_block / next) recorded
MaxTake    == 2      \* take_error calls recorded
MaxIters   == 1      \* ReceiverIterator objects alive at the same time
MaxAll     == 3      \* length of the sequence handed to send_all

T == {5, 6}          \* message payloads
E == {7, 8}          \* error payloads
H == 1..MaxHandles   \* Sender handle identities
I == 1..MaxIters     \* iterator identities

\* ------------------------------------------------------------ data types
\* enum CommMsg<T, E> { Message(T), Error(E) }
Message(t) == <<"Message", t>>
Error(e)   == <<"Error", e>>
IsMessage(m) == m[1] = "Message"
IsError(m)   == m[1] = "Error"

\* Option and Result values
None    == <<>>
Some(x) == <<x>>
Ok      == <<"Ok">>
Err(x)  == <<"Err", x>>

VARIABLES
  queue,     \* the mpsc transport: envelopes enqueued and not yet dequeued
  rxAlive,   \* the mpsc::Receiver (inside Receiver) has not been dropped
  sx,        \* sx[h]: Sender handle h: [state, closed]
  rx,        \* the Receiver's fields: [closed, errored, error]
  rxpc,      \* where the receiving thread is: idle, or blocked in recv_block
  iters,     \* iters[i]: ReceiverIterator i: [state, blocking]
  sa,        \* sa[h]: a send_all in progress on handle h
  last,      \* history: the latest send_all call and its result
  sent,      \* history: every envelope the transport accepted, in order
  results,   \* history: the results of the receive calls, in order
  takes,     \* history: each take_error: cause and has_error before it, result
  cause      \* history: why the Receiver closed: Open, Graceful or Errored

vars == <<queue, rxAlive, sx, rx, rxpc, iters, sa, last, sent, results, takes, cause>>

\* --------------------------------------------------------------- helpers
Live(h)      == sx[h].state = "live"
LiveHandles  == {h \in H : Live(h)}
NoIter       == [state |-> "none", blocking |-> FALSE]
NoSendAll    == [active |-> FALSE, it |-> <<>>, arg |-> <<>>, acc |-> <<>>]
Idle(h)      == Live(h) /\ ~sa[h].active
NotBlocked   == [at |-> "idle", op |-> "", via |-> 0]
RxIdle       == rxAlive /\ rxpc.at = "idle"
\* the Receiver is reachable by name: not moved into an owning iterator
RxOwned      == \E i \in I : iters[i].state = "owned"
\* a send_all call: its handle, argument and result, and the envelopes the
\* transport accepted from it
Done(h, arg, ret, acc) == [h |-> h, arg |-> arg, ret |-> ret, acc |-> acc]
Pending      == <<"Pending">>   \* the call has not returned yet

\* ----------------------------------------------------------------- Init
\* channel(): one Sender, one Receiver, an empty transport
Sender_from_old   == [state |-> "live", closed |-> FALSE]
Receiver_from_old == [closed |-> FALSE, errored |-> FALSE, error |-> None]

Init ==
  /\ queue = <<>>
  /\ rxAlive = TRUE
  /\ sx = [h \in H |-> IF h = 1 THEN Sender_from_old
                       ELSE [state |-> "none", closed |-> FALSE]]
  /\ rx = Receiver_from_old
  /\ rxpc = NotBlocked
  /\ iters = [i \in I |-> NoIter]
  /\ sa = [h \in H |-> NoSendAll]
  /\ last = Done(0, <<>>, Pending, <<>>)
  /\ sent = <<>>
  /\ results = <<>>
  /\ takes = <<>>
  /\ cause = "Open"

\* ------------------------------------------------------------ transport
\* mpsc::Sender::send: fails, handing the envelope back, iff the consumer
\* end has been dropped; otherwise appends the envelope.
\* (variant of inner_send_ret: the transport refuses envelopes once the
\* Receiver has latched closed)
inner_send_ret_latched(m) == IF rxAlive /\ ~rx.closed THEN Ok ELSE Err(m)

inner_send_ret(m)   == IF rxAlive THEN Ok ELSE Err(m)
inner_send_queue(m) == IF rxAlive THEN Append(queue, m) ELSE queue

\* (variant of inner_try_recv: the disconnect is reported although
\* envelopes are still queued)
inner_try_recv_eager ==
  IF LiveHandles = {} THEN <<"Disconnected">>
  ELSE IF queue # <<>> THEN <<"Ok", Head(queue)>>
  ELSE <<"Empty">>

\* mpsc::Receiver::try_recv: the head envelope; Disconnected only when the
\* queue is empty and no producer handle is left; Empty otherwise.
inner_try_recv ==
  IF queue # <<>> THEN <<"Ok", Head(queue)>>
  ELSE IF LiveHandles = {} THEN <<"Disconnected">>
  ELSE <<"Empty">>

\* what the transport accepted in a step, for the histories
Accepted(q, q2) == IF Len(q2) > Len(q) THEN SubSeq(q2, Len(q) + 1, Len(q2)) ELSE <<>>

\* --------------------------------------------------------------- Sender
\* (variant of send_ret: the failure is swallowed)
send_ret_swallow(t) == Ok

\* Sender::send, the match on self.inner.send(CommMsg::Message(t)):
\* the value returned, and the value of self.closed afterwards
send_ret(t) ==
  LET r == inner_send_ret(Message(t)) IN
  IF r = Ok THEN Ok ELSE Err(r[2][2])
\* (variant of send_closed: the flag is set whatever the transport returned)
send_closed_eager(h, t) == TRUE

send_closed(h, t) ==
  IF inner_send_ret(Message(t)) = Ok THEN sx[h].closed ELSE TRUE

send(h, t) ==
  /\ Idle(h)
  /\ rxAlive => Len(sent) < MaxSend
  /\ queue' = inner_send_queue(Message(t))
  /\ sx' = [sx EXCEPT ![h].closed = send_closed(h, t)]
  /\ sent' = sent \o Accepted(queue, queue')
  /\ UNCHANGED <<rxAlive, rx, rxpc, iters, sa, last, results, takes, cause>>

\* Sender::send_all: the caller hands over an iterator i
send_all_call(h, xs) ==
  /\ Idle(h)
  /\ sa' = [sa EXCEPT ![h] = [active |-> TRUE, it |-> xs, arg |-> xs, acc |-> <<>>]]
  /\ last' = Done(h, xs, Pending, <<>>)
  /\ UNCHANGED <<queue, rxAlive, sx, rx, rxpc, iters, sent, results, takes, cause>>

\* (variant of iter_next: the item is read without advancing the iterator)
iter_next_peek(it) == [x |-> Head(it), i |-> it]

\* i.next() on a non-empty iterator: the item, and the iterator afterwards
iter_next(it) == [x |-> Head(it), i |-> Tail(it)]

\* one turn of the loop of send_all: i.next(), then self.send(x)
send_all_loop(h) ==
  /\ Live(h) /\ sa[h].active
  /\ IF sa[h].it = <<>>
     THEN \* None => break; Ok(())
          /\ sa' = [sa EXCEPT ![h] = NoSendAll]
          /\ last' = Done(h, sa[h].arg, Ok, sa[h].acc)
          /\ UNCHANGED <<queue, sx, sent>>
     ELSE LET x == iter_next(sa[h].it).x
              i == iter_next(sa[h].it).i
          IN  /\ rxAlive => Len(sent) < MaxSend
              /\ queue' = inner_send_queue(Message(x))
              /\ sx' = [sx EXCEPT ![h].closed = send_closed(h, x)]
              /\ sent' = sent \o Accepted(queue, queue')
              /\ IF send_ret(x) = Ok
                 THEN /\ sa' = [sa EXCEPT ![h].it = i,
                                          ![h].acc = @ \o Accepted(queue, queue')]
                      /\ UNCHANGED last
                 ELSE \* Err(x) => return Err((x, i))
                      /\ sa' = [sa EXCEPT ![h] = NoSendAll]
                      /\ last' = Done(h, sa[h].arg, Err(<<send_ret(x)[2], i>>),
                                       sa[h].acc \o Accepted(queue, queue'))
  /\ UNCHANGED <<rxAlive, rx, rxpc, iters, results, takes, cause>>

\* Sender::close(self) {}: the handle is dropped and nothing else happens.
\* Letting a Sender go out of scope is the same step.
close(h) ==
  /\ Idle(h)
  /\ sx' = [sx EXCEPT ![h].state = "gone"]
  /\ UNCHANGED <<queue, rxAlive, rx, rxpc, iters, sa, last, sent, results, takes, cause>>

\* Sender::error(self, e): the value returned
error_ret(e) ==
  LET r == inner_send_ret(Error(e)) IN
  IF r = Ok THEN Ok ELSE Err(r[2][2])

error(h, e) ==
  /\ Idle(h)
  /\ rxAlive => Len(sent) < MaxSend
  /\ queue' = inner_send_queue(Error(e))
  /\ sx' = [sx EXCEPT ![h] = [state |-> "gone",
                              closed |-> IF error_ret(e) = Ok THEN sx[h].closed ELSE TRUE]]
  /\ sent' = sent \o Accepted(queue, queue')
  /\ UNCHANGED <<rxAlive, rx, rxpc, iters, sa, last, results, takes, cause>>

\* Sender::is_closed: the value returned; the call changes nothing
Sender_is_closed_ret(h) == sx[h].closed

Sender_is_closed(h) ==
  /\ Idle(h)
  /\ UNCHANGED vars

\* (variant of clone: the new handle starts with closed = false)
clone_fresh(h) ==
  /\ Idle(h)
  /\ \E n \in H :
       /\ sx[n].state = "none"
       /\ \A k \in H : sx[k].state = "none" => n <= k
       /\ sx' = [sx EXCEPT ![n] = [state |-> "live", closed |-> FALSE]]
  /\ UNCHANGED <<queue, rxAlive, rx, rxpc, iters, sa, last, sent, results, takes, cause>>

\* Clone for Sender: a new handle on the same transport, closed copied
clone(h) ==
  /\ Idle(h)
  /\ \E n \in H :
       /\ sx[n].state = "none"
       /\ \A k \in H : sx[k].state = "none" => n <= k
       /\ sx' = [sx EXCEPT ![n] = [state |-> "live", closed |-> sx[h].closed]]
  /\ UNCHANGED <<queue, rxAlive, rx, rxpc, iters, sa, last, sent, results, takes, cause>>

\* ------------------------------------------------------------- Receiver
\* (variant of recv_rx: the Disconnected arm does not set closed)
recv_rx_no_latch(r) ==
  IF r[1] = "Ok" /\ IsError(r[2])
    THEN [closed |-> TRUE, errored |-> TRUE, error |-> Some(r[2][2])]
  ELSE rx
\* (variant of recv_rx: the Error arm does not set errored)
recv_rx_no_flag(r) ==
  IF r[1] = "Ok" /\ IsError(r[2])
    THEN [closed |-> TRUE, errored |-> rx.errored, error |-> Some(r[2][2])]
  ELSE IF r[1] = "Disconnected"
    THEN [rx EXCEPT !.closed = TRUE]
  ELSE rx
\* (variant of recv_ret: the payload of any envelope is yielded)
recv_ret_any(r) ==
  IF r[1] = "Ok" THEN Some(r[2][2]) ELSE None

\* (variant of recv_rx: the Error arm stores the error but does not close)
recv_rx_error_open(r) ==
  IF r[1] = "Ok" /\ IsError(r[2])
    THEN [closed |-> rx.closed, errored |-> TRUE, error |-> Some(r[2][2])]
  ELSE IF r[1] = "Disconnected"
    THEN [rx EXCEPT !.closed = TRUE]
  ELSE rx

\* (variant of recv_rx: an empty queue is taken for a disconnect)
recv_rx_close_on_empty(r) ==
  IF r[1] = "Ok" /\ IsError(r[2])
    THEN [closed |-> TRUE, errored |-> TRUE, error |-> Some(r[2][2])]
  ELSE IF r[1] = "Disconnected" \/ r[1] = "Empty"
    THEN [rx EXCEPT !.closed = TRUE]
  ELSE rx

\* Receiver::recv after the is_closed test, the match on
\* self.inner.try_recv() with r its result: the fields afterwards, the value
\* returned, and the reason recorded in the history `cause`
recv_rx(r) ==
  IF r[1] = "Ok" /\ IsError(r[2])
    THEN [closed |-> TRUE, errored |-> TRUE, error |-> Some(r[2][2])]
  ELSE IF r[1] = "Disconnected"
    THEN [rx EXCEPT !.closed = TRUE]
  ELSE rx
recv_ret(r) ==
  IF r[1] = "Ok" /\ IsMessage(r[2]) THEN Some(r[2][2]) ELSE None
recv_cause(r) ==
  IF r[1] = "Ok" /\ IsError(r[2]) THEN "Errored"
  ELSE IF r[1] = "Disconnected" THEN "Graceful"
  ELSE cause

\* (variant of recv_body: no is_closed test before try_recv)
recv_body_no_short(op, via) ==
  /\ Len(results) < MaxRecv
  /\ LET r == inner_try_recv IN
     /\ queue' = IF r[1] = "Ok" THEN Tail(queue) ELSE queue
     /\ rx' = recv_rx(r)
     /\ cause' = recv_cause(r)
     /\ results' = Append(results, recv_ret(r))
  /\ UNCHANGED <<rxAlive, sx, rxpc, iters, sa, last, sent, takes>>

\* the whole of Receiver::recv, called directly (via = 0) or by iterator via
recv_body(op, via) ==
  /\ Len(results) < MaxRecv
  /\ IF rx.closed
     THEN /\ results' = Append(results, None)
          /\ UNCHANGED <<queue, rx, cause>>
     ELSE LET r == inner_try_recv IN
          /\ queue' = IF r[1] = "Ok" THEN Tail(queue) ELSE queue
          /\ rx' = recv_rx(r)
          /\ cause' = recv_cause(r)
          /\ results' = Append(results, recv_ret(r))
  /\ UNCHANGED <<rxAlive, sx, rxpc, iters, sa, last, sent, takes>>

recv ==
  /\ RxIdle /\ ~RxOwned
  /\ recv_body("recv", 0)

\* (variant of recv_block_rx: the disconnect is taken for an error)
recv_block_rx_errored(r) ==
  IF r[1] = "Ok" /\ IsError(r[2])
    THEN [closed |-> TRUE, errored |-> TRUE, error |-> Some(r[2][2])]
  ELSE IF r[1] = "Disconnected"
    THEN [rx EXCEPT !.closed = TRUE, !.errored = TRUE]
  ELSE rx

\* (variant of recv_block_ret: the Message arm loses the value)
recv_block_ret_lost(r) == None

\* Receiver::recv_block after the is_closed test, the match on
\* self.inner.recv() with r its result (Err(RecvError) is "Disconnected")
recv_block_rx(r) ==
  IF r[1] = "Ok" /\ IsError(r[2])
    THEN [closed |-> TRUE, errored |-> TRUE, error |-> Some(r[2][2])]
  ELSE IF r[1] = "Disconnected"
    THEN [rx EXCEPT !.closed = TRUE]
  ELSE rx
recv_block_ret(r) ==
  IF r[1] = "Ok" /\ IsMessage(r[2]) THEN Some(r[2][2]) ELSE None

\* self.inner.recv() returns with r: the rest of recv_block
recv_block_return(op, via, r) ==
  /\ queue' = IF r[1] = "Ok" THEN Tail(queue) ELSE queue
  /\ rx' = recv_block_rx(r)
  /\ cause' = recv_cause(r)
  /\ results' = Append(results, recv_block_ret(r))
  /\ rxpc' = NotBlocked

\* (variant of recv_block_body: no is_closed test before self.inner.recv())
recv_block_body_no_short(op, via) ==
  /\ Len(results) < MaxRecv
  /\ IF inner_try_recv[1] = "Empty"
     THEN /\ rxpc' = [at |-> "blocked", op |-> op, via |-> via]
          /\ UNCHANGED <<queue, rx, cause, results>>
     ELSE recv_block_return(op, via, inner_try_recv)
  /\ UNCHANGED <<rxAlive, sx, iters, sa, last, sent, takes>>

\* (variant of recv_block_body: try_recv in place of recv, an empty queue
\* gives None)
recv_block_body_try(op, via) ==
  /\ Len(results) < MaxRecv
  /\ IF rx.closed \/ inner_try_recv[1] = "Empty"
     THEN /\ results' = Append(results, None)
          /\ UNCHANGED <<queue, rx, cause, rxpc>>
     ELSE recv_block_return(op, via, inner_try_recv)
  /\ UNCHANGED <<rxAlive, sx, iters, sa, last, sent, takes>>

\* Receiver::recv_block up to the point where self.inner.recv() returns or
\* suspends the thread (empty queue, a producer handle still alive)
recv_block_body(op, via) ==
  /\ Len(results) < MaxRecv
  /\ IF rx.closed
     THEN /\ results' = Append(results, None)
          /\ UNCHANGED <<queue, rx, cause, rxpc>>
     ELSE IF inner_try_recv[1] = "Empty"
     THEN /\ rxpc' = [at |-> "blocked", op |-> op, via |-> via]
          /\ UNCHANGED <<queue, rx, cause, results>>
     ELSE recv_block_return(op, via, inner_try_recv)
  /\ UNCHANGED <<rxAlive, sx, iters, sa, last, sent, takes>>

recv_block ==
  /\ RxIdle /\ ~RxOwned
  /\ recv_block_body("recv_block", 0)

\* (variant of recv_block_wake: the drop of the last producer handle does
\* not end the suspension)
recv_block_wake_envelope_only ==
  /\ rxAlive /\ rxpc.at = "blocked"
  /\ inner_try_recv[1] = "Ok"
  /\ recv_block_return(rxpc.op, rxpc.via, inner_try_recv)
  /\ UNCHANGED <<rxAlive, sx, iters, sa, last, sent, takes>>

\* the suspended self.inner.recv() returns: an envelope arrived or the last
\* producer handle was dropped
recv_block_wake ==
  /\ rxAlive /\ rxpc.at = "blocked"
  /\ inner_try_recv[1] # "Empty"
  /\ recv_block_return(rxpc.op, rxpc.via, inner_try_recv)
  /\ UNCHANGED <<rxAlive, sx, iters, sa, last, sent, takes>>

\* Receiver::has_error: the value returned; the call changes nothing
has_error_ret == rx.errored

has_error ==
  /\ RxIdle /\ ~RxOwned
  /\ UNCHANGED vars

\* (variant of take_error_rx: the error is copied out, not taken)
take_error_rx_keep == [rx EXCEPT !.errored = FALSE]
\* (variant of take_error_rx: errored is left set)
take_error_rx_latched == [rx EXCEPT !.error = None]

\* Receiver::take_error: the fields afterwards and the value returned
take_error_rx  == [rx EXCEPT !.errored = FALSE, !.error = None]
take_error_ret == rx.error

take_error ==
  /\ RxIdle /\ ~RxOwned
  /\ Len(takes) < MaxTake
  /\ rx' = take_error_rx
  /\ takes' = Append(takes, [cause |-> cause, had |-> has_error_ret, ret |-> take_error_ret])
  /\ UNCHANGED <<queue, rxAlive, sx, rxpc, iters, sa, last, sent, results, cause>>

\* Receiver::is_closed: the value returned; the call changes nothing
is_closed_ret == rx.closed

is_closed ==
  /\ RxIdle /\ ~RxOwned
  /\ UNCHANGED vars

\* The Receiver goes out of scope: the consumer end of the transport is
\* dropped and with it whatever was still queued.  Borrowing iterators
\* cannot outlive it.
Receiver_drop ==
  /\ RxIdle /\ ~RxOwned
  /\ \A i \in I : iters[i].state = "none"
  /\ rxAlive' = FALSE
  /\ queue' = <<>>
  /\ UNCHANGED <<sx, rx, rxpc, iters, sa, last, sent, results, takes, cause>>

\* ------------------------------------------------------ ReceiverIterator
\* Receiver::iter (blocking = FALSE) and Receiver::blocking_iter (TRUE)
iter(b) ==
  /\ RxIdle /\ ~RxOwned
  /\ \E i \in I :
       /\ iters[i].state = "none"
       /\ \A k \in I : iters[k].state = "none" => i <= k
       /\ iters' = [iters EXCEPT ![i] = [state |-> "borrowed", blocking |-> b]]
  /\ UNCHANGED <<queue, rxAlive, sx, rx, rxpc, sa, last, sent, results, takes, cause>>

\* Receiver::into_iter (blocking = FALSE) and Receiver::into_blocking_iter
\* (TRUE): the Receiver is moved, so nothing borrows it
into_iter(b) ==
  /\ RxIdle /\ ~RxOwned
  /\ \A i \in I : iters[i].state = "none"
  /\ iters' = [iters EXCEPT ![1] = [state |-> "owned", blocking |-> b]]
  /\ UNCHANGED <<queue, rxAlive, sx, rx, rxpc, sa, last, sent, results, takes, cause>>

\* (variant of next: the blocking flag is read the wrong way round)
next_swapped(i) ==
  /\ RxIdle
  /\ iters[i].state # "none"
  /\ IF iters[i].blocking
     THEN recv_body("next", i)
     ELSE recv_block_body("next", i)

\* Iterator for ReceiverIterator: next
next(i) ==
  /\ RxIdle
  /\ iters[i].state # "none"
  /\ IF iters[i].blocking
     THEN recv_block_body("next", i)
     ELSE recv_body("next", i)

\* A ReceiverIterator goes out of scope; an owning one takes the Receiver
\* with it.
iter_drop(i) ==
  /\ RxIdle
  /\ iters[i].state # "none"
  /\ iters' = [iters EXCEPT ![i] = NoIter]
  /\ rxAlive' = (iters[i].state # "owned")
  /\ queue' = IF iters[i].state = "owned" THEN <<>> ELSE queue
  /\ UNCHANGED <<sx, rx, rxpc, sa, last, sent, results, takes, cause>>

\* -------------------------------------------------------- specifications
SenderStep ==
  \/ \E h \in H, t \in T : send(h, t)
  \/ \E h \in H : close(h)
  \/ \E h \in H, e \in E : error(h, e)
  \/ \E h \in H : Sender_is_closed(h)
  \/ \E h \in H : clone(h)

ReceiverStep ==
  \/ recv
  \/ recv_block
  \/ recv_block_wake
  \/ has_error
  \/ take_error
  \/ is_closed
  \/ Receiver_drop

Next == SenderStep \/ ReceiverStep

Spec == Init /\ [][Next]_vars

\* the sequences a caller can hand to send_all
Inputs == UNION {[1..n -> T] : n \in 0..MaxAll}

SendAllStep ==
  \/ \E xs \in Inputs : send_all_call(1, xs)
  \/ \E h \in H : send_all_loop(h)

IteratorStep ==
  \/ \E b \in BOOLEAN : iter(b)
  \/ \E b \in BOOLEAN : into_iter(b)
  \/ \E i \in I : next(i)
  \/ \E i \in I : iter_drop(i)

\* send_all on the original handle, while clones send and the Receiver is
\* dropped at any moment (what the Receiver dequeues does not reach the
\* sending side)
NextAll ==
  \/ SendAllStep
  \/ \E h \in H, t \in T : send(h, t)
  \/ \E h \in H : clone(h)
  \/ \E h \in H : close(h)
  \/ Receiver_drop
SpecAll == Init /\ [][NextAll]_vars

\* the channel received from through iterators as well
NextIter == Next \/ IteratorStep
SpecIter == Init /\ [][NextIter]_vars

\* Several producers: every handle stamps its k-th message 10*h + k, so a
\* payload tells which handle sent it and when; no error, and the Receiver
\* lives until it has closed.
SentBy(h) == LET From(m) == IsMessage(m) /\ m[2] \div 10 = h IN SelectSeq(sent, From)
Stamp(h)  == 10 * h + Len(SentBy(h)) + 1

NextMulti ==
  \/ \E h \in H : send(h, Stamp(h))
  \/ \E h \in H : clone(h)
  \/ \E h \in H : close(h)
  \/ recv
  \/ recv_block
  \/ recv_block_wake
SpecMulti == Init /\ [][NextMulti]_vars

\* the Receiver read only through non-blocking iterators, borrowing or
\* owning, created and dropped at will
NextRestart ==
  \/ \E h \in H, t \in T : send(h, t)
  \/ \E h \in H, e \in E : error(h, e)
  \/ \E h \in H : clone(h)
  \/ \E h \in H : close(h)
  \/ iter(FALSE)
  \/ into_iter(FALSE)
  \/ \E i \in I : next(i)
  \/ \E i \in I : iter_drop(i)
SpecRestart == Init /\ [][NextRestart]_vars

\* test iter_block(): producers send, close or error while a consumer runs
\* `for x in blocking iterator`, which calls next() again after every
\* result; a suspended self.inner.recv() returns once it can.  The
\* consumer may also call recv_block itself.  The iterator and the Receiver
\* are kept until the end.
NextBlock ==
  \/ \E h \in H, t \in T : send(h, t)
  \/ \E h \in H, e \in E : error(h, e)
  \/ \E h \in H : clone(h)
  \/ \E h \in H : close(h)
  \/ iter(TRUE)
  \/ into_iter(TRUE)
  \/ \E i \in I : next(i)
  \/ recv_block
  \/ recv_block_wake
SpecBlock ==
  /\ Init /\ [][NextBlock]_vars
  /\ WF_vars(\E i \in I : next(i))
  /\ WF_vars(recv_block_wake)

\* ------------------------------------------------- what the claims read
\* the payloads of the Message envelopes of s, in order
Payloads(s) ==
  LET ms == SelectSeq(s, IsMessage) IN [j \in 1..Len(ms) |-> ms[j][2]]
\* position of the first Error envelope of s, 0 when there is none
FirstError(s) ==
  IF \E j \in 1..Len(s) : IsError(s[j])
  THEN CHOOSE j \in 1..Len(s) : IsError(s[j]) /\ \A k \in 1..(j - 1) : ~IsError(s[k])
  ELSE 0
\* the values the receive calls have yielded, in order
IsSome(r) == r # None
Yielded ==
  LET ys == SelectSeq(results, IsSome) IN [j \in 1..Len(ys) |-> ys[j][1]]
LastResult == results[Len(results)]
\* the take_error calls made when the Receiver had closed for reason c
TakenAfter(c) == LET Was(t) == t.cause = c IN SelectSeq(takes, Was)

\* ------------------------------------------------------------------- C1
\* C1: graceful close delivers everything in order.  Once a receive has
\* observed the disconnect (every Sender handle gone, no error), the values
\* yielded by recv / recv_block are exactly the values sent, in send order,
\* the last result is None, and is_closed() is true in that and every later
\* state.
C1_GracefulCloseDelivers ==
  cause = "Graceful" =>
    /\ LiveHandles = {}
    /\ Yielded = Payloads(sent)
    /\ \A j \in 1..Len(sent) : IsMessage(sent[j])
    /\ LastResult = None
    /\ is_closed_ret

\* test basic(): send 5, send 6, close; recv, recv, recv
C1_Witness ==
  /\ cause = "Graceful"
  /\ sent = <<Message(5), Message(6)>>
  /\ results = <<Some(5), Some(6), None>>
  /\ is_closed_ret

\* ------------------------------------------------------------------- C2
\* C2: error termination.  Once a receive has dequeued the Error envelope,
\* the values yielded are exactly the values enqueued before that envelope,
\* in order, the last result is None, is_closed() is true, and until
\* take_error is called has_error() is true and take_error() would return
\* Some(e) with the e passed to error; the first take_error after the
\* closure did return Some(e).
C2_ErrorTermination ==
  cause = "Errored" =>
    LET k == FirstError(sent) IN
    /\ k > 0
    /\ Yielded = Payloads(SubSeq(sent, 1, k - 1))
    /\ LastResult = None
    /\ is_closed_ret
    /\ IF TakenAfter("Errored") = <<>>
       THEN has_error_ret /\ take_error_ret = Some(sent[k][2])
       ELSE TakenAfter("Errored")[1].ret = Some(sent[k][2])

\* test error(): send 5, error(7); recv, recv, take_error
C2_Witness ==
  /\ cause = "Errored"
  /\ sent = <<Message(5), Error(7)>>
  /\ results = <<Some(5), None>>
  /\ Len(takes) = 1 /\ takes[1].cause = "Errored" /\ takes[1].ret = Some(7)

\* ------------------------------------------------------------------- C4
\* C4: take_error is one-shot.  Over the life of the Receiver at most one
\* take_error returns Some; every take_error after it returns None, and
\* is_closed() is true from then on.
C4_TakeErrorOneShot ==
  /\ \A i, j \in 1..Len(takes) : (i < j /\ takes[i].ret # None) => takes[j].ret = None
  /\ (\E i \in 1..Len(takes) : takes[i].ret # None) => is_closed_ret /\ take_error_ret = None

C4_Witness ==
  /\ Len(takes) = 2
  /\ takes[1].ret = Some(7)
  /\ takes[2].ret = None
  /\ is_closed_ret

C3_ClosedLatched ==
  [][is_closed_ret =>
       /\ is_closed_ret'
       /\ results' # results => results' = Append(results, None)]_vars

\* closed by an error while a clone is alive, the clone's message behind it
\* in the queue, and an owning blocking iterator stepped after the closure
C3_Witness ==
  /\ is_closed_ret /\ cause = "Errored"
  /\ iters[1] = [state |-> "owned", blocking |-> TRUE]
  /\ LiveHandles # {}
  /\ queue = <<Message(5)>>
  /\ results = <<None, None>>

C7_ErroredImpliesClosed ==
  /\ rx.errored => rx.closed
  /\ rx.errored =>
       /\ cause = "Errored"
       /\ FirstError(sent) > 0
       /\ Len(queue) <= Len(sent) - FirstError(sent)
  /\ cause = "Graceful" =>
       /\ ~has_error_ret
       /\ take_error_ret = None
       /\ \A i \in 1..Len(takes) : takes[i].cause = "Graceful" => takes[i].ret = None

\* closed by the disconnect after a message, take_error called afterwards
C7_Witness ==
  /\ cause = "Graceful"
  /\ sent = <<Message(6)>>
  /\ results = <<Some(6), None>>
  /\ Len(TakenAfter("Graceful")) = 1

\* ------------------------------------------------------------------- C8
\* C8: short-circuit frame condition.  A recv or recv_block called on a
\* closed Receiver returns None in that step (recv_block does not suspend)
\* and leaves the transport queue, the closed and errored flags and the
\* stored error as they were.
C8_ShortCircuitFrame ==
  [][(rx.closed /\ (recv \/ recv_block)) =>
       /\ results' = Append(results, None)
       /\ rxpc' = NotBlocked
       /\ UNCHANGED <<queue, rx>>]_vars

\* closed by an error, a clone's message still queued behind it, and two
\* receives made after the closure
C8_Witness ==
  /\ rx.closed
  /\ sent = <<Error(7), Message(5)>>
  /\ queue = <<Message(5)>>
  /\ results = <<None, None, None>>

\* ------------------------------------------------------------------- C9
\* what a call that sends envelope m for payload x and returns ret must do
C9_Post(m, ret, x) ==
  /\ (ret = Err(x)) <=> ~rxAlive
  /\ (ret = Ok) <=> rxAlive
  /\ queue' = IF rxAlive THEN Append(queue, m) ELSE queue
  /\ sent' = IF rxAlive THEN Append(sent, m) ELSE sent

\* C9: delivery failure is returned, never dropped.  send(v) (error(e))
\* returns Err with the caller's own v (e) exactly when the consumer end has
\* been dropped, and then nothing is enqueued; otherwise it returns Ok and
\* exactly the one envelope Message(v) (Error(e)) is appended.
C9_DeliveryFailureReturned ==
  [][\A h \in H :
       /\ \A t \in T : send(h, t) => C9_Post(Message(t), send_ret(t), t)
       /\ \A e \in E : error(h, e) => C9_Post(Error(e), error_ret(e), e)]_vars

\* a send was accepted, the Receiver was dropped, and a send then failed on
\* a handle that is still alive
C9_Witness ==
  /\ ~rxAlive
  /\ sent # <<>>
  /\ \E h \in H : Live(h) /\ Sender_is_closed_ret(h)

\* ------------------------------------------------------------------ C10
\* C10: send_all stops at the first failed send.  When send_all(x1..xn)
\* has returned: either Ok, and Message(x1)..Message(xn) were accepted in
\* order; or Err((xk, remaining)) with remaining = x(k+1)..xn, exactly
\* Message(x1)..Message(x(k-1)) accepted in order, and the consumer gone.
C10_SendAllStopsAtFirstFailure ==
  last.ret # Pending =>
    LET xs == last.arg
        n  == Len(xs)
    IN  IF last.ret = Ok
        THEN last.acc = [j \in 1..n |-> Message(xs[j])]
        ELSE /\ ~rxAlive
             /\ \E k \in 1..n :
                  /\ last.ret = Err(<<xs[k], SubSeq(xs, k + 1, n)>>)
                  /\ last.acc = [j \in 1..(k - 1) |-> Message(xs[j])]

\* [a, b, c] with the consumer dropped after a was accepted
C10_Witness ==
  /\ last.arg = <<5, 6, 5>>
  /\ last.ret = Err(<<6, <<5>>>>)
  /\ last.acc = <<Message(5)>>

\* ------------------------------------------------------------------ C11
\* how often v occurs in the sequence s
Count(s, v) == Cardinality({j \in 1..Len(s) : s[j] = v})
\* the values of s that handle h stamped, in the order of s
OfHandle(s, h) == LET Mine(v) == v \div 10 = h IN SelectSeq(s, Mine)

\* C11: multi-producer delivery without loss or duplication.  When the
\* Receiver has closed on the disconnect, every value sent by any handle was
\* yielded exactly once (as multisets, yielded = sent), and the values of
\* each handle were yielded in the order that handle sent them.
C11_MultiProducerDelivery ==
  cause = "Graceful" =>
    /\ \A j \in 1..Len(sent) :
         Count(Yielded, sent[j][2]) = Count(Payloads(sent), sent[j][2])
    /\ Len(Yielded) = Len(sent)
    /\ \A h \in H :
         OfHandle(Yielded, h) = [k \in 1..Len(SentBy(h)) |-> 10 * h + k]

\* the original and its clone each sent one message, both handles were
\* dropped, and the Receiver received until it closed
C11_Witness ==
  /\ cause = "Graceful"
  /\ Yielded = <<11, 21>>
  /\ results = <<Some(11), Some(21), None>>

\* ------------------------------------------------------------------ C12
\* C12: non-blocking iteration is restartable.  A non-blocking iterator's
\* next() never suspends; a None it returns on a momentarily empty queue
\* leaves the Receiver open (the Receiver is closed only once an Error or
\* the disconnect was seen); and while the Receiver is open the values
\* yielded so far, by the same or by a fresh iterator, followed by the
\* values still queued, are exactly the values sent, in send order.
C12_NonBlockingRestart ==
  /\ rxpc = NotBlocked
  /\ is_closed_ret <=> cause # "Open"
  /\ (rxAlive /\ ~is_closed_ret) => Payloads(sent) = Yielded \o Payloads(queue)

\* test iter(): a value, None on the empty queue, then the value sent
\* after that None
C12_Witness ==
  /\ rxAlive /\ ~is_closed_ret
  /\ iters[1] = [state |-> "borrowed", blocking |-> FALSE]
  /\ sent = <<Message(5), Message(6)>>
  /\ results = <<Some(5), None, Some(6)>>

\* ------------------------------------------------------------------ C13
\* the channel has been closed from the sending side while a blocking
\* iterator is reading it: every handle is gone, or an Error was sent
C13_Closure ==
  /\ \E i \in I : iters[i].state # "none" /\ iters[i].blocking
  /\ LiveHandles = {} \/ FirstError(sent) # 0
\* the iterator has returned None and is not suspended
C13_Terminated ==
  /\ is_closed_ret
  /\ results # <<>> /\ LastResult = None
  /\ rxpc = NotBlocked
\* the values sent strictly before the closure
C13_BeforeClosure ==
  IF FirstError(sent) # 0
  THEN Payloads(SubSeq(sent, 1, FirstError(sent) - 1))
  ELSE Payloads(sent)

\* C13: blocking iterator termination.  Once the channel has been closed
\* from the sending side (every Sender handle dropped, or Sender.error), a
\* blocking iterator eventually returns None instead of hanging, and once
\* the Receiver has closed the values the iterator yielded are exactly the
\* values sent strictly before the closure, in order.
C13_BlockingIterTerminates ==
  /\ [](is_closed_ret => Yielded = C13_BeforeClosure)
  /\ C13_Closure ~> C13_Terminated

\* test iter_block(): an owning blocking iterator yields the two values
\* and ends after the last handle was dropped
C13_Witness ==
  /\ iters[1] = [state |-> "owned", blocking |-> TRUE]
  /\ cause = "Graceful"
  /\ sent = <<Message(5), Message(6)>>
  /\ results = <<Some(5), Some(6), None>>
  /\ rxpc = NotBlocked

\* ------------------------------------------------------------------ C14
\* C14: a non-blocking recv on an open Receiver whose queue is empty while
\* a Sender handle is alive returns None and changes nothing: is_closed()
\* and has_error() stay false, the stored error stays empty, the transport
\* is unchanged, and the thread is not suspended.
C14_EmptyRecvFrame ==
  [][(recv /\ ~is_closed_ret /\ queue = <<>> /\ LiveHandles # {}) =>
       /\ results' = Append(results, None)
       /\ UNCHANGED <<queue, rxAlive, sx, rx, rxpc, iters, sa, sent, takes, cause>>
       /\ ~is_closed_ret' /\ ~has_error_ret' /\ take_error_ret' = None]_vars

\* recv on the empty open channel gave None, and the recv after a send
\* yielded the value
C14_Witness ==
  /\ rxAlive /\ ~is_closed_ret /\ ~has_error_ret
  /\ LiveHandles # {}
  /\ sent = <<Message(5)>>
  /\ results = <<None, Some(5)>>

\* ------------------------------------------------------------------ C15
\* a step of recv_block, of a blocking iterator, or the return of a
\* suspended one
C15_BlockingStep ==
  \/ recv_block
  \/ recv_block_wake
  \/ \E i \in I : iters[i].blocking /\ next(i)
\* the thread is suspended in self.inner.recv()
C15_Suspended == rxAlive /\ rxpc.at = "blocked"
\* an envelope has arrived or the last Sender handle was dropped
C15_Wakeable == queue # <<>> \/ LiveHandles = {}

\* C15: recv_block, and every step of a blocking iterator, returns None
\* only when the channel is closed: after a None is_closed() is true; on an
\* empty queue of an open Receiver with a Sender handle alive the call
\* suspends and returns nothing; a suspended Receiver is open; the suspended
\* call can return exactly when an envelope is queued or no Sender handle
\* is left, and then it does return.
C15_NoneOnlyWhenClosed ==
  /\ [][C15_BlockingStep =>
          /\ results' = Append(results, None) => is_closed_ret'
          /\ (~is_closed_ret /\ rxpc.at = "idle" /\ queue = <<>> /\ LiveHandles # {}) =>
               /\ rxpc'.at = "blocked"
               /\ UNCHANGED <<results, rx, queue>>]_vars
  /\ [](C15_Suspended =>
          /\ ~is_closed_ret
          /\ C15_Wakeable <=> ENABLED recv_block_wake)
  /\ (C15_Suspended /\ C15_Wakeable) ~> (rxpc = NotBlocked)

\* recv_block yielded a value and the next recv_block is suspended on the
\* empty queue of the open channel
C15_Witness ==
  /\ C15_Suspended /\ rxpc.op = "recv_block"
  /\ ~is_closed_ret /\ queue = <<>> /\ LiveHandles # {}
  /\ results = <<Some(5)>>

\* ------------------------------------------------------------------ C16
\* the step in which the Receiver goes from Open to ClosedGraceful
C16_GracefulTransition == ~is_closed_ret /\ is_closed_ret' /\ ~has_error_ret'

\* C16: the Receiver goes from Open to ClosedGraceful only in a receive
\* that observes the disconnect with nothing pending: every Sender handle
\* has been dropped and the transport queue is empty, the receive returns
\* None, and every value enqueued has been yielded by then.  Closing or
\* dropping a Sender handle never changes the Receiver's state.
C16_GracefulOnlyOnDisconnect ==
  /\ [][C16_GracefulTransition =>
          /\ recv \/ recv_block \/ recv_block_wake
          /\ LiveHandles = {} /\ queue = <<>>
          /\ \A j \in 1..Len(sent) : IsMessage(sent[j])
          /\ Yielded = Payloads(sent)
          /\ results' = Append(results, None)
          /\ cause' = "Graceful"]_vars
  /\ [][(\E h \in H : close(h)) => UNCHANGED <<rx, cause, queue>>]_vars

\* the original was closed after sending while its clone was alive; the
\* value was delivered, the Receiver stayed open until the clone was
\* dropped too, and then closed gracefully
C16_Witness ==
  /\ cause = "Graceful" /\ is_closed_ret /\ ~has_error_ret
  /\ sx[1].state = "gone" /\ sx[2].state = "gone"
  /\ sent = <<Message(5)>>
  /\ results = <<Some(5), None, None>>

\* ------------------------------------------------------------------ C17
\* the step in which the Receiver dequeues an Error envelope
C17_DequeuesError ==
  /\ rxAlive' /\ queue # <<>> /\ IsError(Head(queue))
  /\ Len(queue') = Len(queue) - 1

\* C17: at most one terminal error per channel.  The Receiver dequeues an
\* Error envelope only while it is open with an empty error slot, and that
\* envelope is the first Error in transport order; the slot is filled only
\* in that step, so at most once, and with that envelope's payload; once
\* the Receiver has closed it takes nothing from the transport any more,
\* so a later Error envelope stays queued and never overwrites the slot.
C17_AtMostOneError ==
  /\ [][C17_DequeuesError =>
          /\ ~is_closed_ret /\ cause = "Open" /\ take_error_ret = None
          /\ Head(queue) = sent[FirstError(sent)]
          /\ Len(queue) = Len(sent) - FirstError(sent) + 1
          /\ take_error_ret' = Some(Head(queue)[2])
          /\ is_closed_ret' /\ cause' = "Errored"]_vars
  /\ [][(take_error_ret' # take_error_ret /\ take_error_ret' # None) =>
          C17_DequeuesError]_vars
  /\ [][(is_closed_ret /\ rxAlive') =>
          /\ Len(queue') >= Len(queue)
          /\ is_closed_ret' /\ cause' = cause]_vars
  /\ [](take_error_ret # None =>
          /\ cause = "Errored"
          /\ take_error_ret = Some(sent[FirstError(sent)][2]))

\* two clones each called error; the Receiver stored the first, closed, and
\* the second Error envelope stays in the transport through a later recv
C17_Witness ==
  /\ sent = <<Error(7), Error(8)>>
  /\ take_error_ret = Some(7)
  /\ queue = <<Error(8)>>
  /\ results = <<None, None>>
  /\ LiveHandles = {}

\* ------------------------------------------------------------------ C18
\* C18: the Sender's cached closed flag is per handle.  clone() gives the
\* new handle the source's flag as it is at that moment and changes no
\* other handle; a send on one handle leaves every other handle as it was
\* and sets its own flag exactly when the send fails; the flag of a live
\* handle changes only in that handle's own failed send or error; and
\* is_closed() changes nothing.
C18_ClosedFlagPerHandle ==
  /\ [][\A h \in H : clone(h) =>
          \E n \in H :
            /\ sx[n].state = "none"
            /\ sx'[n] = [state |-> "live", closed |-> Sender_is_closed_ret(h)]
            /\ \A k \in H \ {n} : sx'[k] = sx[k]]_vars
  /\ [][\A h \in H, t \in T : send(h, t) =>
          /\ \A k \in H \ {h} : sx'[k] = sx[k]
          /\ sx'[h].closed = (Sender_is_closed_ret(h) \/ send_ret(t) # Ok)]_vars
  /\ [][\A k \in H : (Live(k) /\ sx'[k].closed # sx[k].closed) =>
          /\ ~rxAlive /\ sx'[k].closed
          /\ \/ \E t \in T : send(k, t) /\ send_ret(t) = Err(t)
             \/ \E e \in E : error(k, e) /\ error_ret(e) = Err(e)]_vars
  /\ [][\A h \in H : Sender_is_closed(h) => UNCHANGED vars]_vars

\* the clone was made while the original's flag was false; after the
\* Receiver was dropped only the original attempted a send, so the
\* original reports closed and the clone does not
C18_Witness ==
  /\ ~rxAlive
  /\ Live(1) /\ Sender_is_closed_ret(1)
  /\ Live(2) /\ ~Sender_is_closed_ret(2)

\* ------------------------------------------------------------------ C19
\* some handle's is_closed() is true while a different clone is alive
C19_FlagSetBesideClone ==
  \E h, k \in H : h # k /\ Live(h) /\ Live(k) /\ Sender_is_closed_ret(h)

C20_SendIgnoresLatch ==
  /\ [][\A h \in H, t \in T : (send(h, t) /\ rxAlive) =>
          /\ send_ret(t) = Ok
          /\ queue' = Append(queue, Message(t))
          /\ ~Sender_is_closed_ret(h) /\ ~sx'[h].closed]_vars
  /\ [](rxAlive => \A h \in H : ~Sender_is_closed_ret(h))
  /\ [][is_closed_ret =>
          /\ Yielded' = Yielded
          /\ rxAlive' => Len(queue') >= Len(queue)]_vars
  /\ [](cause = "Errored" =>
          Yielded = Payloads(SubSeq(sent, 1, FirstError(sent) - 1)))

\* a clone called error, the Receiver dequeued it and latched closed; the
\* surviving handle then sent 5, which was accepted and stays queued
\* through a further receive
C20_Witness ==
  /\ rxAlive /\ is_closed_ret /\ cause = "Errored"
  /\ sent = <<Error(7), Message(5)>>
  /\ queue = <<Message(5)>>
  /\ results = <<None, None>>
  /\ \E h \in H : Live(h) /\ ~Sender_is_closed_ret(h)

====
